---- MODULE Spec2Model ----
(***************************************************************************)
(* Model of DudleyMethodSpline (src/SplineDurabilityDudleyMethod.py): the  *)
(* Dudley-method spline stress calculator.  The object's stored inputs and *)
(* result attributes are the state; calculate() is modelled statement by   *)
(* statement; the lookups and formulas are operators.                      *)
(*                                                                         *)
(* Python values are records [k, m, e]:                                    *)
(*   k = "num"   a float, m * 10^e, kept to four significant decimal       *)
(*               digits (1000 <= |m| <= 9999, or m = 0 and e = 0);         *)
(*   k = "None"  the value None (a function that falls off its end);       *)
(*   k = "Unset" an attribute that has never been assigned;                *)
(*   any other k is the name of a raised exception.                        *)
(***************************************************************************)
EXTENDS Integers, Sequences, FiniteSets, TLC

VARIABLES
    inp,        \* the stored inputs self._t .. self._y (set by __init__)
    autoCalc,   \* the constructor's autoCalc argument
    fields,     \* the result attributes self._shaftStress .. self._burstSafetyFactor
    pc,         \* "ctor", "idle", "dead", "fmt", or the pipeline step in progress
    caller,     \* who started the running calculate(): "init", "calculate", "repr"
    bound,      \* the caller holds a reference to the object
    outcome,    \* how the last call ended: "none", "returned" or the exception name
    computed,   \* the result attributes assigned by the current / last run
    calls,      \* number of calculate() runs started on these inputs
    objs,       \* number of objects constructed from these inputs
    snapshot,   \* the result attributes as the first completed run left them
    report,     \* the attributes the last __repr__ printed
    call,       \* the last direct method call: [fn, args, ret]
    shaftFormula, \* the shaft-stress method the current / last run called
    previous    \* [nTotal, fields]: the total revolutions and the first
                \* completed result of the object built before the total
                \* revolutions were changed

vars == <<inp, autoCalc, fields, pc, caller, bound, outcome, computed, calls,
          objs, snapshot, report, call, shaftFormula, previous>>

-----------------------------------------------------------------------------
(* Values *)

Val(kind, mant, expo) == [k |-> kind, m |-> mant, e |-> expo]

None == Val("None", 0, 0)

Unset == Val("Unset", 0, 0)

Raise(name) == Val(name, 0, 0)

IsNum(v) == v.k = "num"

IsExc(v) == v.k \notin {"num", "None", "Unset"}

Abs(x) == IF x < 0 THEN -x ELSE x

Sgn(x) == IF x < 0 THEN -1 ELSE 1

RECURSIVE Pow10(_)
Pow10(n) == IF n = 0 THEN 1 ELSE 10 * Pow10(n - 1)

\* Rounds a positive mantissa to four significant digits.
RECURSIVE NormPos(_, _)
NormPos(m, e) ==
    IF m >= 100000 THEN NormPos(m \div 10, e + 1)
    ELSE IF m >= 10000 THEN NormPos((m + 5) \div 10, e + 1)
    ELSE IF m < 1000 THEN NormPos(m * 10, e - 1)
    ELSE Val("num", m, e)

\* The float m * 10^e.
Num(m, e) ==
    IF m = 0 THEN Val("num", 0, 0)
    ELSE LET p == NormPos(Abs(m), e) IN Val("num", Sgn(m) * p.m, p.e)

\* An operand that is not a float: an exception raised while evaluating it
\* propagates, None gives TypeError.
Bad(v) == IF IsExc(v) THEN v ELSE Raise("TypeError")

\* a * b
Mul(a, b) ==
    IF ~IsNum(a) THEN Bad(a)
    ELSE IF ~IsNum(b) THEN Bad(b)
    ELSE Num(a.m * b.m, a.e + b.e)

\* a / b on Python floats (the inputs the model draws keep the denominators
\* that involve numpy values, lines 763 and 786, away from zero)
Div(a, b) ==
    IF ~IsNum(a) THEN Bad(a)
    ELSE IF ~IsNum(b) THEN Bad(b)
    ELSE IF b.m = 0 THEN Raise("ZeroDivisionError")
    ELSE Num(Sgn(a.m) * Sgn(b.m) * ((Abs(a.m) * 100000) \div Abs(b.m)), a.e - b.e - 5)

\* a + b
Add(a, b) ==
    IF ~IsNum(a) THEN Bad(a)
    ELSE IF ~IsNum(b) THEN Bad(b)
    ELSE IF a.m = 0 THEN b
    ELSE IF b.m = 0 THEN a
    ELSE LET hi == IF a.e >= b.e THEN a ELSE b
             lo == IF a.e >= b.e THEN b ELSE a
             d  == hi.e - lo.e
         IN  IF d > 5 THEN hi ELSE Num(hi.m * Pow10(d) + lo.m, lo.e)

\* a - b
Sub(a, b) == IF ~IsNum(b) THEN Add(a, b) ELSE Add(a, Val("num", -b.m, b.e))

\* a ** n for a literal whole exponent n >= 1
RECURSIVE Pow(_, _)
Pow(a, n) == IF n = 1 THEN a ELSE Mul(Pow(a, n - 1), a)

\* np.pi
PI == Num(3142, -3)

\* a < b on floats
Lt(a, b) ==
    IF a.m < 0 /\ b.m < 0
    THEN b.e < a.e \/ (b.e = a.e /\ a.m < b.m)
    ELSE IF a.m <= 0 \/ b.m <= 0 THEN a.m < b.m
    ELSE a.e < b.e \/ (a.e = b.e /\ a.m < b.m)

\* Whole numbers beyond 2^31 (revolution counts up to 1e10 and more) are
\* pairs <<hi, lo>> standing for hi * 100000 + lo, 0 <= lo < 100000.
BigLt(a, b) == a[1] < b[1] \/ (a[1] = b[1] /\ a[2] < b[2])

\* The float literal 1ek, 4 <= k, as a whole number.
E(k) == IF k = 4 THEN <<0, 10000>> ELSE <<Pow10(k - 5), 0>>

\* PressureConverter.psiToPa: 1 psi = 6894.757 Pa.
psiToPa(psi) == Mul(psi, Num(6895, 0))

\* LengthConverter.mToInch: 1 in = 0.0254 m.
mToInch(m) == Div(m, Num(254, -4))

\* np.tan at the pressure angles the model draws (radians): 0, 30 deg, 3 rad.
tan(phi) ==
    IF ~IsNum(phi) THEN Bad(phi)
    ELSE IF phi = Num(5236, -4) THEN Num(5774, -4)
    ELSE IF phi = Num(3, 0) THEN Num(-1425, -4)
    ELSE Num(0, 0)

\* seq[i] on a Python list of length n: indices -n .. n-1 are accepted.
PyInRange(i, n) == -n <= i /\ i < n

PyPos(i, n) == IF i >= 0 THEN i + 1 ELSE n + i + 1

-----------------------------------------------------------------------------
(* Formulas and lookups of DudleyMethodSpline *)

solidShaftStress(t, dRE) == Div(Mul(Num(16, 0), t), Mul(PI, Pow(dRE, 3)))

hollowShaftStress(t, dRE, dH) ==
    Div(Mul(Mul(Num(16, 0), t), dRE), Mul(PI, Sub(Pow(dRE, 4), Pow(dH, 4))))

kTable ==
    << <<Num(10, -1), Num(12, -1), Num(15, -1), Num(18, -1)>>,
       <<Num(12, -1), Num(13, -1), Num(18, -1), Num(21, -1)>>,
       <<Num(20, -1), Num(22, -1), Num(24, -1), Num(28, -1)>> >>

\* A faulty variant of getSplineApplicationFactor: the table is indexed by
\* the load class first.
getSplineApplicationFactorTransposed(supplyShockType, loadShockType) ==
    IF ~PyInRange(loadShockType, 3) THEN Raise("IndexError")
    ELSE IF ~PyInRange(supplyShockType, 4) THEN Raise("IndexError")
    ELSE kTable[PyPos(loadShockType, 3)][PyPos(supplyShockType, 4)]

getSplineApplicationFactor(supplyShockType, loadShockType) ==
    IF ~PyInRange(supplyShockType, 3) THEN Raise("IndexError")
    ELSE IF ~PyInRange(loadShockType, 4) THEN Raise("IndexError")
    ELSE kTable[PyPos(supplyShockType, 3)][PyPos(loadShockType, 4)]

\* A faulty variant of getLifeFactor: a cycle count equal to a breakpoint
\* stays in the lower bucket.
getLifeFactorInclusive(nCyc, reversible) ==
    IF nCyc <= 1000 THEN (IF reversible THEN Num(18, -1) ELSE Num(18, -1))
    ELSE IF nCyc <= 10000 THEN (IF reversible THEN Num(10, -1) ELSE Num(10, -1))
    ELSE IF nCyc <= 100000 THEN (IF reversible THEN Num(4, -1) ELSE Num(5, -1))
    ELSE IF nCyc <= 1000000 THEN (IF reversible THEN Num(3, -1) ELSE Num(4, -1))
    ELSE (IF reversible THEN Num(2, -1) ELSE Num(3, -1))

\* A faulty variant of getLifeFactor: the last row ends at the 10000000
\* cycles that label it in the docstring table, and nothing is returned
\* beyond.
getLifeFactorBounded(nCyc, reversible) ==
    IF nCyc < 1000 THEN (IF reversible THEN Num(18, -1) ELSE Num(18, -1))
    ELSE IF nCyc < 10000 THEN (IF reversible THEN Num(10, -1) ELSE Num(10, -1))
    ELSE IF nCyc < 100000 THEN (IF reversible THEN Num(4, -1) ELSE Num(5, -1))
    ELSE IF nCyc < 1000000 THEN (IF reversible THEN Num(3, -1) ELSE Num(4, -1))
    ELSE IF nCyc < 10000000 THEN (IF reversible THEN Num(2, -1) ELSE Num(3, -1))
    ELSE None

\* A faulty variant of getLifeFactor: the unidirectional and fully-reversed
\* columns are exchanged.
getLifeFactorExchanged(nCyc, reversible) ==
    IF nCyc < 1000 THEN (IF reversible THEN Num(18, -1) ELSE Num(18, -1))
    ELSE IF nCyc < 10000 THEN (IF reversible THEN Num(10, -1) ELSE Num(10, -1))
    ELSE IF nCyc < 100000 THEN (IF reversible THEN Num(5, -1) ELSE Num(4, -1))
    ELSE IF nCyc < 1000000 THEN (IF reversible THEN Num(4, -1) ELSE Num(3, -1))
    ELSE (IF reversible THEN Num(3, -1) ELSE Num(2, -1))

getLifeFactor(nCyc, reversible) ==
    IF nCyc < 1000 THEN (IF reversible THEN Num(18, -1) ELSE Num(18, -1))
    ELSE IF nCyc < 10000 THEN (IF reversible THEN Num(10, -1) ELSE Num(10, -1))
    ELSE IF nCyc < 100000 THEN (IF reversible THEN Num(4, -1) ELSE Num(5, -1))
    ELSE IF nCyc < 1000000 THEN (IF reversible THEN Num(3, -1) ELSE Num(4, -1))
    ELSE (IF reversible THEN Num(2, -1) ELSE Num(3, -1))

maximumShaftStress(sS, kA, lF) == Div(Mul(sS, kA), lF)

\* A faulty variant of getAllowableShearStressByHardness: each row is
\* matched on both of its published ends, so the gaps fall through.
getAllowableShearStressByHardnessBracketed(hardness, hType) ==
    IF hType = "Brinell" THEN
        IF 160 <= hardness /\ hardness < 200 THEN psiToPa(Num(20000, 0))
        ELSE IF 230 <= hardness /\ hardness < 260 THEN psiToPa(Num(30000, 0))
        ELSE IF 302 <= hardness /\ hardness < 351 THEN psiToPa(Num(40000, 0))
        ELSE None
    ELSE IF hType = "Rockwell C" THEN
        IF 33 <= hardness /\ hardness < 38 THEN psiToPa(Num(40000, 0))
        ELSE IF 42 <= hardness /\ hardness < 46 THEN psiToPa(Num(45000, 0))
        ELSE IF 48 <= hardness /\ hardness < 53 THEN psiToPa(Num(40000, 0))
        ELSE IF 58 <= hardness /\ hardness < 63 THEN psiToPa(Num(50000, 0))
        ELSE None
    ELSE Raise("UnrecognisedHardnessTypeException")

\* A faulty variant of getAllowableShearStressByHardness: the Rockwell C
\* row 42-46 is left out, as in the compressive table.
getAllowableShearStressByHardnessRowMissing(hardness, hType) ==
    IF hType = "Brinell" THEN
        IF hardness < 200 THEN psiToPa(Num(20000, 0))
        ELSE IF hardness < 260 THEN psiToPa(Num(30000, 0))
        ELSE IF hardness < 351 THEN psiToPa(Num(40000, 0))
        ELSE None
    ELSE IF hType = "Rockwell C" THEN
        IF hardness < 38 THEN psiToPa(Num(40000, 0))
        ELSE IF hardness < 53 THEN psiToPa(Num(40000, 0))
        ELSE IF hardness < 63 THEN psiToPa(Num(50000, 0))
        ELSE None
    ELSE Raise("UnrecognisedHardnessTypeException")

getAllowableShearStressByHardness(hardness, hType) ==
    IF hType = "Brinell" THEN
        IF hardness < 200 THEN psiToPa(Num(20000, 0))
        ELSE IF hardness < 260 THEN psiToPa(Num(30000, 0))
        ELSE IF hardness < 351 THEN psiToPa(Num(40000, 0))
        ELSE None
    ELSE IF hType = "Rockwell C" THEN
        IF hardness < 38 THEN psiToPa(Num(40000, 0))
        ELSE IF hardness < 46 THEN psiToPa(Num(45000, 0))
        ELSE IF hardness < 53 THEN psiToPa(Num(40000, 0))
        ELSE IF hardness < 63 THEN psiToPa(Num(50000, 0))
        ELSE None
    ELSE Raise("UnrecognisedHardnessTypeException")

\* A faulty variant of getShaftSafetyFactor: the quotient is inverted.
getShaftSafetyFactorInverted(maxShaftStress, allowableShaftStress) ==
    Div(maxShaftStress, allowableShaftStress)

getShaftSafetyFactor(maxShaftStress, allowableShaftStress) ==
    Div(allowableShaftStress, maxShaftStress)

getTeethShearStress(t, kM, d, z, fE, tC) ==
    Div(Mul(Mul(Num(4, 0), t), kM), Mul(Mul(Mul(d, z), fE), tC))

lookUp ==
    << <<Num(10, -1), Num(10, -1), Num(10, -1), Num(15, -1)>>,
       <<Num(10, -1), Num(10, -1), Num(15, -1), Num(20, -1)>>,
       <<Num(10, -1), Num(15, -1), Num(20, -1), Num(25, -1)>>,
       <<Num(15, -1), Num(20, -1), Num(25, -1), Num(30, -1)>> >>

\* The counting loop of getLoadDistributionFactorSpline: the number of
\* breakpoints passed before the first one that x is below.
RECURSIVE CountBelow(_, _, _)
CountBelow(x, bps, i) ==
    IF i > Len(bps) THEN 0
    ELSE IF Lt(x, bps[i]) THEN 0
    ELSE 1 + CountBelow(x, bps, i + 1)

\* A faulty variant of the counting loop: a value equal to a breakpoint
\* stops at it.
RECURSIVE CountBelowInclusive(_, _, _)
CountBelowInclusive(x, bps, i) ==
    IF i > Len(bps) THEN 0
    ELSE IF ~Lt(bps[i], x) THEN 0
    ELSE 1 + CountBelowInclusive(x, bps, i + 1)

\* A faulty variant of getLoadDistributionFactorSpline: it uses the counting
\* loop above.
getLoadDistributionFactorSplineInclusive(relativeMisalignment, fE) ==
    LET m0 == CountBelowInclusive(relativeMisalignment,
                         <<Num(1, -3), Num(2, -3), Num(4, -3), Num(8, -3)>>, 1)
        m  == IF m0 > 3 THEN 3 ELSE m0
        n0 == CountBelowInclusive(fE,
                         <<Num(127, -4), Num(254, -4), Num(508, -4), Num(101, -3)>>, 1)
        n  == IF n0 > 3 THEN 3 ELSE n0
    IN  lookUp[m + 1][n + 1]

\* A faulty variant of getLoadDistributionFactorSpline: each row and column
\* is used up to the breakpoint that labels it (the count less one), so the
\* last row and column begin at the top breakpoint.
getLoadDistributionFactorSplineByLabel(relativeMisalignment, fE) ==
    LET m0 == CountBelow(relativeMisalignment,
                         <<Num(1, -3), Num(2, -3), Num(4, -3), Num(8, -3)>>, 1)
        m  == IF m0 = 0 THEN 0 ELSE m0 - 1
        n0 == CountBelow(fE,
                         <<Num(127, -4), Num(254, -4), Num(508, -4), Num(101, -3)>>, 1)
        n  == IF n0 = 0 THEN 0 ELSE n0 - 1
    IN  lookUp[m + 1][n + 1]

\* A faulty variant of getLoadDistributionFactorSpline: the counts are not
\* clamped (lines 540 and 549 left out), so a count of 4 indexes past the
\* table.
getLoadDistributionFactorSplineUnclamped(relativeMisalignment, fE) ==
    LET m == CountBelow(relativeMisalignment,
                        <<Num(1, -3), Num(2, -3), Num(4, -3), Num(8, -3)>>, 1)
        n == CountBelow(fE,
                        <<Num(127, -4), Num(254, -4), Num(508, -4), Num(101, -3)>>, 1)
    IN  IF m > 3 \/ n > 3 THEN Raise("IndexError") ELSE lookUp[m + 1][n + 1]

getLoadDistributionFactorSpline(relativeMisalignment, fE) ==
    LET m0 == CountBelow(relativeMisalignment,
                         <<Num(1, -3), Num(2, -3), Num(4, -3), Num(8, -3)>>, 1)
        m  == IF m0 > 3 THEN 3 ELSE m0
        n0 == CountBelow(fE,
                         <<Num(127, -4), Num(254, -4), Num(508, -4), Num(101, -3)>>, 1)
        n  == IF n0 > 3 THEN 3 ELSE n0
    IN  lookUp[m + 1][n + 1]

getCompressiveStress(t, kM, d, z, fE, h) ==
    Div(Mul(Mul(Num(2, 0), t), kM), Mul(Mul(Mul(d, z), fE), h))

\* A faulty variant of getAllowableCompressiveStressForSplines: the hardness
\* type is examined before the tooth end.
getAllowableCompressiveStressForSplinesTypeFirst(hardness, hType, toothEnd) ==
    IF hType \notin {"Brinell", "Rockwell C"}
    THEN Raise("UnrecognisedHardnessTypeException")
    ELSE IF toothEnd \notin {"Straight", "Crowned"}
    THEN Raise("UnrecognisedToothEndException")
    ELSE IF hType = "Brinell" THEN
        IF hardness < 200
        THEN (IF toothEnd = "Straight" THEN psiToPa(Num(1500, 0)) ELSE psiToPa(Num(6000, 0)))
        ELSE IF hardness < 260
        THEN (IF toothEnd = "Straight" THEN psiToPa(Num(2000, 0)) ELSE psiToPa(Num(8000, 0)))
        ELSE IF hardness < 351
        THEN (IF toothEnd = "Straight" THEN psiToPa(Num(3000, 0)) ELSE psiToPa(Num(12000, 0)))
        ELSE None
    ELSE
        IF hardness < 38
        THEN (IF toothEnd = "Straight" THEN psiToPa(Num(3000, 0)) ELSE psiToPa(Num(12000, 0)))
        ELSE IF hardness < 53
        THEN (IF toothEnd = "Straight" THEN psiToPa(Num(4000, 0)) ELSE psiToPa(Num(16000, 0)))
        ELSE IF hardness < 63
        THEN (IF toothEnd = "Straight" THEN psiToPa(Num(5000, 0)) ELSE psiToPa(Num(20000, 0)))
        ELSE None

\* A faulty variant of getAllowableCompressiveStressForSplines: the values
\* of the straight and the crowned profile are exchanged.
getAllowableCompressiveStressForSplinesExchanged(hardness, hType, toothEnd) ==
    IF toothEnd \notin {"Straight", "Crowned"}
    THEN Raise("UnrecognisedToothEndException")
    ELSE IF hType = "Brinell" THEN
        IF hardness < 200
        THEN (IF toothEnd = "Crowned" THEN psiToPa(Num(1500, 0)) ELSE psiToPa(Num(6000, 0)))
        ELSE IF hardness < 260
        THEN (IF toothEnd = "Crowned" THEN psiToPa(Num(2000, 0)) ELSE psiToPa(Num(8000, 0)))
        ELSE IF hardness < 351
        THEN (IF toothEnd = "Crowned" THEN psiToPa(Num(3000, 0)) ELSE psiToPa(Num(12000, 0)))
        ELSE None
    ELSE IF hType = "Rockwell C" THEN
        IF hardness < 38
        THEN (IF toothEnd = "Crowned" THEN psiToPa(Num(3000, 0)) ELSE psiToPa(Num(12000, 0)))
        ELSE IF hardness < 53
        THEN (IF toothEnd = "Crowned" THEN psiToPa(Num(4000, 0)) ELSE psiToPa(Num(16000, 0)))
        ELSE IF hardness < 63
        THEN (IF toothEnd = "Crowned" THEN psiToPa(Num(5000, 0)) ELSE psiToPa(Num(20000, 0)))
        ELSE None
    ELSE Raise("UnrecognisedHardnessTypeException")

getAllowableCompressiveStressForSplines(hardness, hType, toothEnd) ==
    IF toothEnd \notin {"Straight", "Crowned"}
    THEN Raise("UnrecognisedToothEndException")
    ELSE IF hType = "Brinell" THEN
        IF hardness < 200
        THEN (IF toothEnd = "Straight" THEN psiToPa(Num(1500, 0)) ELSE psiToPa(Num(6000, 0)))
        ELSE IF hardness < 260
        THEN (IF toothEnd = "Straight" THEN psiToPa(Num(2000, 0)) ELSE psiToPa(Num(8000, 0)))
        ELSE IF hardness < 351
        THEN (IF toothEnd = "Straight" THEN psiToPa(Num(3000, 0)) ELSE psiToPa(Num(12000, 0)))
        ELSE None
    ELSE IF hType = "Rockwell C" THEN
        IF hardness < 38
        THEN (IF toothEnd = "Straight" THEN psiToPa(Num(3000, 0)) ELSE psiToPa(Num(12000, 0)))
        ELSE IF hardness < 53
        THEN (IF toothEnd = "Straight" THEN psiToPa(Num(4000, 0)) ELSE psiToPa(Num(16000, 0)))
        ELSE IF hardness < 63
        THEN (IF toothEnd = "Straight" THEN psiToPa(Num(5000, 0)) ELSE psiToPa(Num(20000, 0)))
        ELSE None
    ELSE Raise("UnrecognisedHardnessTypeException")

\* A faulty variant of getSplineWearLifeFactor: a revolution count equal to
\* a breakpoint stays in the lower step.
getSplineWearLifeFactorInclusive(nCyc) ==
    IF ~BigLt(E(4), nCyc) THEN Num(40, -1)
    ELSE IF ~BigLt(E(5), nCyc) THEN Num(28, -1)
    ELSE IF ~BigLt(E(6), nCyc) THEN Num(2, 0)
    ELSE IF ~BigLt(E(7), nCyc) THEN Num(14, -1)
    ELSE IF ~BigLt(E(8), nCyc) THEN Num(1, 0)
    ELSE IF ~BigLt(E(9), nCyc) THEN Num(7, -1)
    ELSE IF ~BigLt(E(10), nCyc) THEN Num(5, -1)
    ELSE None

getSplineWearLifeFactor(nCyc) ==
    IF BigLt(nCyc, E(4)) THEN Num(40, -1)
    ELSE IF BigLt(nCyc, E(5)) THEN Num(28, -1)
    ELSE IF BigLt(nCyc, E(6)) THEN Num(2, 0)
    ELSE IF BigLt(nCyc, E(7)) THEN Num(14, -1)
    ELSE IF BigLt(nCyc, E(8)) THEN Num(1, 0)
    ELSE IF BigLt(nCyc, E(9)) THEN Num(7, -1)
    ELSE IF BigLt(nCyc, E(10)) THEN Num(5, -1)
    ELSE None

\* A faulty variant of getAllowableCompressiveStress: a missing life factor
\* is skipped instead of divided by.
getAllowableCompressiveStressLenient(sC, kA, lW, flexible) ==
    IF lW = None THEN Mul(sC, kA)
    ELSE IF flexible THEN Div(Mul(sC, kA), lW)
    ELSE Div(Mul(sC, kA), Mul(Num(9, 0), lW))

\* A faulty variant of getAllowableCompressiveStress: the rigid form leaves
\* out the constant 9.
getAllowableCompressiveStressUnscaled(sC, kA, lW, flexible) ==
    IF flexible THEN Div(Mul(sC, kA), lW)
    ELSE Div(Mul(sC, kA), lW)

getAllowableCompressiveStress(sC, kA, lW, flexible) ==
    IF flexible THEN Div(Mul(sC, kA), lW)
    ELSE Div(Mul(sC, kA), Mul(Num(9, 0), lW))

getBurstingRadialStress(t, phi, d, tW, f) ==
    Div(Mul(t, tan(phi)), Mul(Mul(Mul(PI, d), tW), f))

getBurstingCentrifugalStress(n, dOi, dRi) ==
    psiToPa(Mul(Mul(Mul(Num(828, -3), Num(1, -6)), Pow(n, 2)),
                Add(Mul(Num(2, 0), Pow(mToInch(dOi), 2)),
                    Mul(Num(424, -3), Pow(mToInch(dRi), 2)))))

getBurstingTensileStress(t, d, fE, y) ==
    Div(Mul(Num(4, 0), t), Mul(Mul(Pow(d, 2), fE), y))

\* A faulty variant of getTotalBurstingStress: the centrifugal stress is
\* scaled with the other two.
getTotalBurstingStressAllScaled(kA, kM, s1, s2, s3) ==
    Mul(Mul(kA, kM), Add(Add(s1, s3), s2))

getTotalBurstingStress(kA, kM, s1, s2, s3) ==
    Add(Mul(Mul(kA, kM), Add(s1, s3)), s2)

\* A faulty variant of getAllowableBurstingStressByHardness: every type that
\* is not 'Brinell' is taken for 'Rockwell C'.
getAllowableBurstingStressByHardnessDefaulting(hardness, hType) ==
    IF hType = "Brinell" THEN
        IF hardness < 200 THEN psiToPa(Num(22000, 0))
        ELSE IF hardness < 260 THEN psiToPa(Num(32000, 0))
        ELSE IF hardness < 351 THEN psiToPa(Num(45000, 0))
        ELSE None
    ELSE
        IF hardness < 46 THEN psiToPa(Num(45000, 0))
        ELSE IF hardness < 53 THEN psiToPa(Num(50000, 0))
        ELSE IF hardness < 63 THEN psiToPa(Num(55000, 0))
        ELSE None

\* A faulty variant of getAllowableBurstingStressByHardness: a hardness
\* below the lowest published row has no stress.
getAllowableBurstingStressByHardnessFloor(hardness, hType) ==
    IF hType = "Brinell" THEN
        IF hardness < 160 THEN None
        ELSE IF hardness < 200 THEN psiToPa(Num(22000, 0))
        ELSE IF hardness < 260 THEN psiToPa(Num(32000, 0))
        ELSE IF hardness < 351 THEN psiToPa(Num(45000, 0))
        ELSE None
    ELSE IF hType = "Rockwell C" THEN
        IF hardness < 33 THEN None
        ELSE IF hardness < 46 THEN psiToPa(Num(45000, 0))
        ELSE IF hardness < 53 THEN psiToPa(Num(50000, 0))
        ELSE IF hardness < 63 THEN psiToPa(Num(55000, 0))
        ELSE None
    ELSE Raise("UnrecognisedHardnessTypeException")

\* A faulty variant of getAllowableBurstingStressByHardness: it returns the
\* stresses of the allowable-shear table.
getAllowableBurstingStressByHardnessShearValues(hardness, hType) ==
    IF hType = "Brinell" THEN
        IF hardness < 200 THEN psiToPa(Num(20000, 0))
        ELSE IF hardness < 260 THEN psiToPa(Num(30000, 0))
        ELSE IF hardness < 351 THEN psiToPa(Num(40000, 0))
        ELSE None
    ELSE IF hType = "Rockwell C" THEN
        IF hardness < 46 THEN psiToPa(Num(45000, 0))
        ELSE IF hardness < 53 THEN psiToPa(Num(40000, 0))
        ELSE IF hardness < 63 THEN psiToPa(Num(50000, 0))
        ELSE None
    ELSE Raise("UnrecognisedHardnessTypeException")

getAllowableBurstingStressByHardness(hardness, hType) ==
    IF hType = "Brinell" THEN
        IF hardness < 200 THEN psiToPa(Num(22000, 0))
        ELSE IF hardness < 260 THEN psiToPa(Num(32000, 0))
        ELSE IF hardness < 351 THEN psiToPa(Num(45000, 0))
        ELSE None
    ELSE IF hType = "Rockwell C" THEN
        IF hardness < 46 THEN psiToPa(Num(45000, 0))
        ELSE IF hardness < 53 THEN psiToPa(Num(50000, 0))
        ELSE IF hardness < 63 THEN psiToPa(Num(55000, 0))
        ELSE None
    ELSE Raise("UnrecognisedHardnessTypeException")

getBurstingSafetyFactor(sTTot, sTTotMax, lF) == Div(sTTotMax, Div(sTTot, lF))

-----------------------------------------------------------------------------
(* The object: stored inputs and result attributes *)

MaxCalls == 2

MaxObjs == 2

InputNames ==
    {"t", "dRe", "supplyShockType", "loadShockType", "n", "nCyc", "nTotal",
     "hardness", "d", "z", "fE", "tC", "relativeMisalignment", "h", "phi",
     "tW", "f", "dOi", "dRi", "dH", "hType", "reversible", "toothEnd",
     "flexible", "y"}

\* A faulty variant of StepOrder: the shaft safety factor is computed before
\* the allowable shear stress it divides.
StepOrderMisplaced ==
    <<"shaftStress", "appFactor", "splineLF", "maxShaftStress",
      "shaftSafetyFactor", "allowShaftStress", "teethLoadkM", "teethShearStress",
      "maxTeethShearStress", "teethSafetyFactor", "compStress",
      "allowCompStress", "lifeWear", "factoredCompStress", "compSafetyFactor",
      "burstRad", "burstCentrifugal", "burstTens", "burstTotal",
      "allowBurstStress", "burstSafetyFactor">>

\* The statements of calculate(), named by the attribute each assigns, in
\* program order.
StepOrder ==
    <<"shaftStress", "appFactor", "splineLF", "allowShaftStress",
      "maxShaftStress", "shaftSafetyFactor", "teethLoadkM", "teethShearStress",
      "maxTeethShearStress", "teethSafetyFactor", "compStress",
      "allowCompStress", "lifeWear", "factoredCompStress", "compSafetyFactor",
      "burstRad", "burstCentrifugal", "burstTens", "burstTotal",
      "allowBurstStress", "burstSafetyFactor">>

ResultFields ==
    {"shaftStress", "appFactor", "splineLF", "allowShaftStress",
     "maxShaftStress", "shaftSafetyFactor", "teethLoadkM", "teethShearStress",
     "maxTeethShearStress", "teethSafetyFactor", "compStress",
     "allowCompStress", "lifeWear", "factoredCompStress", "compSafetyFactor",
     "burstRad", "burstCentrifugal", "burstTens", "burstTotal",
     "allowBurstStress", "burstSafetyFactor"}

AllUnset == [f \in ResultFields |-> Unset]

\* The attributes self._x each statement of calculate() reads, in the order
\* they are written in the statement.
Args(step) ==
    CASE step = "shaftStress" -> <<"dH", "t", "dRe">>
      [] step = "appFactor" -> <<"supplyShockType", "loadShockType">>
      [] step = "splineLF" -> <<"nCyc", "reversible">>
      [] step = "allowShaftStress" -> <<"hardness", "hType">>
      [] step = "maxShaftStress" -> <<"shaftStress", "appFactor", "splineLF">>
      [] step = "shaftSafetyFactor" -> <<"maxShaftStress", "allowShaftStress">>
      [] step = "teethLoadkM" -> <<"relativeMisalignment", "fE">>
      [] step = "teethShearStress" -> <<"t", "teethLoadkM", "d", "z", "fE", "tC">>
      [] step = "maxTeethShearStress" -> <<"teethShearStress", "appFactor", "splineLF">>
      [] step = "teethSafetyFactor" -> <<"maxTeethShearStress", "allowShaftStress">>
      [] step = "compStress" -> <<"t", "teethLoadkM", "d", "z", "fE", "h">>
      [] step = "allowCompStress" -> <<"hardness", "hType", "toothEnd">>
      [] step = "lifeWear" -> <<"nTotal">>
      [] step = "factoredCompStress" ->
            IF inp.flexible THEN <<"compStress", "appFactor", "lifeWear">>
            ELSE <<"compStress", "appFactor", "splineLF">>
      [] step = "compSafetyFactor" -> <<"allowCompStress", "factoredCompStress">>
      [] step = "burstRad" -> <<"t", "phi", "d", "tW", "f">>
      [] step = "burstCentrifugal" -> <<"n", "dOi", "dRi">>
      [] step = "burstTens" -> <<"t", "d", "fE", "y">>
      [] step = "burstTotal" ->
            <<"appFactor", "teethLoadkM", "burstRad", "burstCentrifugal", "burstTens">>
      [] step = "allowBurstStress" -> <<"hardness", "hType">>
      [] step = "burstSafetyFactor" -> <<"burstTotal", "allowBurstStress", "splineLF">>

\* The result attributes a statement reads.
Reads(step) == {Args(step)[i] : i \in 1..Len(Args(step))} \cap ResultFields

\* self._name
Load(name) == IF name \in InputNames THEN inp[name] ELSE fields[name]

\* A faulty variant of shaftStressFormula: a bore too small to matter is
\* treated as no bore.
shaftStressFormulaTolerant(dH) ==
    IF Lt(dH, Num(1, -6)) /\ Lt(Num(-1, -6), dH) THEN "solidShaftStress"
    ELSE "hollowShaftStress"

\* The conditional expression of lines 140-143: the method calculate() calls
\* for the shaft stress.
shaftStressFormula(dH) ==
    IF dH = Num(0, 0) THEN "solidShaftStress" ELSE "hollowShaftStress"

\* The value a statement of calculate() computes from the attributes a.
Apply(step, a) ==
    CASE step = "shaftStress" ->
            IF shaftStressFormula(a[1]) = "solidShaftStress"
            THEN solidShaftStress(a[2], a[3])
            ELSE hollowShaftStress(a[2], a[3], a[1])
      [] step = "appFactor" -> getSplineApplicationFactor(a[1], a[2])
      [] step = "splineLF" -> getLifeFactor(a[1], a[2])
      [] step = "allowShaftStress" -> getAllowableShearStressByHardness(a[1], a[2])
      [] step = "maxShaftStress" -> maximumShaftStress(a[1], a[2], a[3])
      [] step = "shaftSafetyFactor" -> getShaftSafetyFactor(a[1], a[2])
      [] step = "teethLoadkM" -> getLoadDistributionFactorSpline(a[1], a[2])
      [] step = "teethShearStress" ->
            getTeethShearStress(a[1], a[2], a[3], a[4], a[5], a[6])
      [] step = "maxTeethShearStress" -> maximumShaftStress(a[1], a[2], a[3])
      [] step = "teethSafetyFactor" -> getShaftSafetyFactor(a[1], a[2])
      [] step = "compStress" ->
            getCompressiveStress(a[1], a[2], a[3], a[4], a[5], a[6])
      [] step = "allowCompStress" ->
            getAllowableCompressiveStressForSplines(a[1], a[2], a[3])
      [] step = "lifeWear" -> getSplineWearLifeFactor(a[1])
      [] step = "factoredCompStress" ->
            getAllowableCompressiveStress(a[1], a[2], a[3], inp.flexible)
      [] step = "compSafetyFactor" -> Div(a[1], a[2])
      [] step = "burstRad" -> getBurstingRadialStress(a[1], a[2], a[3], a[4], a[5])
      [] step = "burstCentrifugal" -> getBurstingCentrifugalStress(a[1], a[2], a[3])
      [] step = "burstTens" -> getBurstingTensileStress(a[1], a[2], a[3], a[4])
      [] step = "burstTotal" -> getTotalBurstingStress(a[1], a[2], a[3], a[4], a[5])
      [] step = "allowBurstStress" -> getAllowableBurstingStressByHardness(a[1], a[2])
      [] step = "burstSafetyFactor" -> getBurstingSafetyFactor(a[1], a[2], a[3])

\* A faulty variant of StepValue: the total bursting stress is added to the
\* value the attribute already holds.
StepValueAccumulating(step) ==
    IF \E r \in Reads(step) : fields[r] = Unset THEN Raise("AttributeError")
    ELSE LET v == Apply(step, [i \in 1..Len(Args(step)) |-> Load(Args(step)[i])])
         IN  IF step = "burstTotal" /\ IsNum(fields[step]) THEN Add(v, fields[step])
             ELSE v

\* A faulty variant of StepValue: a shaft stress already present is scaled
\* again by the application factor instead of being recomputed.
StepValueRescaling(step) ==
    IF \E r \in Reads(step) : fields[r] = Unset THEN Raise("AttributeError")
    ELSE IF step = "maxShaftStress" /\ IsNum(fields[step])
    THEN Mul(fields[step], fields["appFactor"])
    ELSE Apply(step, [i \in 1..Len(Args(step)) |-> Load(Args(step)[i])])

\* What executing a statement yields: the value to assign, or the exception
\* raised (reading an attribute that was never assigned is an AttributeError).
StepValue(step) ==
    IF \E r \in Reads(step) : fields[r] = Unset THEN Raise("AttributeError")
    ELSE Apply(step, [i \in 1..Len(Args(step)) |-> Load(Args(step)[i])])

StepIndex(step) == CHOOSE i \in 1..Len(StepOrder) : StepOrder[i] = step

\* A faulty variant of Succ: the wear-life lookup is made for a rigid spline
\* too.
SuccAlways(step) ==
    LET i == StepIndex(step) + 1
    IN  IF i > Len(StepOrder) THEN "return" ELSE StepOrder[i]

\* The statement executed after step, or "return"; the if at line 184 skips
\* the wear-life lookup for a rigid spline.
Succ(step) ==
    LET skip(i) == i <= Len(StepOrder) /\ StepOrder[i] = "lifeWear" /\ ~inp.flexible
        i == StepIndex(step) + 1
        j == IF skip(i) THEN i + 1 ELSE i
    IN  IF j > Len(StepOrder) THEN "return" ELSE StepOrder[j]

First == StepOrder[1]

-----------------------------------------------------------------------------
(* The inputs the model draws *)

HTypes == {"Brinell", "Rockwell C", "Vickers"}

Hardnesses == {47, 215, 351}

ToothEnds == {"Straight", "Crowned", "Round"}

\* <<supplyShockType, loadShockType>>
ShockPairs == {<<2, 3>>, <<-1, -1>>, <<3, 0>>, <<0, 4>>}

\* <<dH, nCyc, reversible>>
LoadCases ==
    {<<Num(0, 0), 999, FALSE>>, <<Num(1, -2), 10000, TRUE>>,
     <<Num(1, -9), 99999, TRUE>>}

\* <<nTotal, flexible>>
WearCases == {<<<<0, 9999>>, TRUE>>, <<E(10), TRUE>>, <<E(10), FALSE>>}

\* __init__, lines 106-130: every argument is stored as given.
Stored(hType, hardness, toothEnd, shock, load, wear) ==
    [t |-> Num(500, 0), dRe |-> Num(3, -2),
     supplyShockType |-> shock[1], loadShockType |-> shock[2],
     n |-> Num(3000, 0), nCyc |-> load[2], nTotal |-> wear[1],
     hardness |-> hardness, d |-> Num(35, -3), z |-> Num(20, 0),
     fE |-> Num(2, -2), tC |-> Num(3, -3),
     relativeMisalignment |-> Num(15, -4), h |-> Num(2, -3),
     phi |-> Num(5236, -4), tW |-> Num(1, -2), f |-> Num(2, -2),
     dOi |-> Num(6, -2), dRi |-> Num(4, -2), dH |-> load[1],
     hType |-> hType, reversible |-> load[3], toothEnd |-> toothEnd,
     flexible |-> wear[2], y |-> Num(15, -1)]

Inputs ==
    {Stored(ht, hd, te, sh, ld, wr) :
        ht \in HTypes, hd \in Hardnesses, te \in ToothEnds,
        sh \in ShockPairs, ld \in LoadCases, wr \in WearCases}

NoCall == [fn |-> "none", args |-> <<>>, ret |-> None]

NoReport == [f \in {} |-> None]

NoPrevious == [nTotal |-> <<0, 0>>, fields |-> AllUnset]

-----------------------------------------------------------------------------
(* Construction, calculate(), __repr__ *)

\* The state on entry to line 131 of __init__.
Init ==
    /\ inp \in Inputs
    /\ autoCalc \in BOOLEAN
    /\ fields = AllUnset
    /\ pc = "ctor"
    /\ caller = "none"
    /\ bound = FALSE
    /\ outcome = "none"
    /\ computed = {}
    /\ calls = 0
    /\ objs = 1
    /\ snapshot = AllUnset
    /\ report = NoReport
    /\ call = NoCall
    /\ shaftFormula = "none"
    /\ previous = NoPrevious

\* Entry to calculate().
Begin(who) ==
    /\ pc' = First
    /\ caller' = who
    /\ outcome' = "none"
    /\ computed' = {}
    /\ calls' = calls + 1
    /\ shaftFormula' = "none"
    /\ UNCHANGED <<inp, autoCalc, fields, bound, objs, snapshot, report, call,
                   previous>>

\* __init__ with autoCalc: calls calculate().
CtorAutoCalc == pc = "ctor" /\ autoCalc /\ Begin("init")

\* __init__ without autoCalc: returns the object with no result attribute.
CtorNoCalc ==
    /\ pc = "ctor" /\ ~autoCalc
    /\ pc' = "idle"
    /\ bound' = TRUE
    /\ UNCHANGED <<inp, autoCalc, fields, caller, outcome, computed, calls, objs,
                   snapshot, report, call, shaftFormula, previous>>

\* The caller calls calculate() on the object it holds.
CallCalculate == pc = "idle" /\ bound /\ calls < MaxCalls /\ Begin("calculate")

\* The caller calls str() / repr(): __repr__ starts with self.calculate().
CallRepr == pc = "idle" /\ bound /\ calls < MaxCalls /\ Begin("repr")

\* One statement of calculate(): it assigns its attribute, or raises; an
\* exception leaves calculate() (and __init__ or __repr__ around it) at once.
CalcStep ==
    /\ pc \in ResultFields
    /\ LET v == StepValue(pc) IN
        IF IsExc(v)
        THEN /\ outcome' = v.k
             /\ pc' = IF caller = "init" THEN "dead" ELSE "idle"
             /\ caller' = "none"
             /\ UNCHANGED <<fields, computed, bound, snapshot>>
        ELSE /\ fields' = [fields EXCEPT ![pc] = v]
             /\ computed' = computed \cup {pc}
             /\ IF Succ(pc) = "return"
                THEN /\ pc' = IF caller = "repr" THEN "fmt" ELSE "idle"
                     /\ caller' = "none"
                     /\ bound' = TRUE
                     /\ outcome' = IF caller = "repr" THEN "none" ELSE "returned"
                     /\ snapshot' = IF snapshot = AllUnset THEN fields' ELSE snapshot
                ELSE /\ pc' = Succ(pc)
                     /\ UNCHANGED <<caller, bound, outcome, snapshot>>
    /\ shaftFormula' = IF pc = "shaftStress" THEN shaftStressFormula(Load("dH"))
                       ELSE shaftFormula
    /\ UNCHANGED <<inp, autoCalc, calls, objs, report, call, previous>>

\* The stresses __repr__ prints in MPa, and the other attributes it prints.
MPaFields ==
    {"shaftStress", "allowShaftStress", "maxShaftStress", "teethShearStress",
     "maxTeethShearStress", "compStress", "allowCompStress",
     "factoredCompStress", "burstRad", "burstCentrifugal", "burstTens",
     "burstTotal", "allowBurstStress"}

PlainFields ==
    {"shaftSafetyFactor", "teethSafetyFactor", "compSafetyFactor",
     "burstSafetyFactor", "appFactor", "splineLF", "teethLoadkM"}

\* The number __repr__ formats for attribute f.
Printed(f) ==
    IF fields[f] = Unset THEN Raise("AttributeError")
    ELSE IF f \in MPaFields THEN Div(fields[f], Num(1, 6))
    ELSE fields[f]

\* The rest of __repr__, after calculate() returned: it formats the
\* attributes; self._lifeWear is printed only if it exists.
ReprFormat ==
    /\ pc = "fmt"
    /\ pc' = "idle"
    /\ LET shown == MPaFields \cup PlainFields
           bad == {f \in shown : IsExc(Printed(f))}
       IN  IF bad # {}
           THEN /\ outcome' = Printed(CHOOSE f \in bad : TRUE).k
                /\ UNCHANGED report
           ELSE /\ outcome' = "returned"
                /\ report' = [f \in shown \cup
                                 (IF fields["lifeWear"] = Unset THEN {} ELSE {"lifeWear"})
                               |-> IF f = "lifeWear" THEN fields[f] ELSE Printed(f)]
    /\ UNCHANGED <<inp, autoCalc, fields, caller, bound, computed, calls, objs,
                   snapshot, call, shaftFormula, previous>>

\* A second object is constructed from the same inputs.
NewObject ==
    /\ pc \in {"idle", "dead"}
    /\ objs < MaxObjs
    /\ objs' = objs + 1
    /\ autoCalc' \in BOOLEAN
    /\ fields' = AllUnset
    /\ pc' = "ctor"
    /\ bound' = FALSE
    /\ outcome' = "none"
    /\ computed' = {}
    /\ calls' = 0
    /\ report' = NoReport
    /\ shaftFormula' = "none"
    /\ UNCHANGED <<inp, caller, snapshot, call, previous>>

\* The total revolutions the caller may change to.
OtherRevolutions == {<<0, 9999>>, E(10)}

\* A second object is constructed from inputs that differ from the first
\* object's in the total revolutions only.
NewObjectOtherRevolutions ==
    /\ pc \in {"idle", "dead"}
    /\ objs < MaxObjs
    /\ \E n \in OtherRevolutions \ {inp.nTotal} :
          inp' = [inp EXCEPT !.nTotal = n]
    /\ previous' = [nTotal |-> inp.nTotal, fields |-> snapshot]
    /\ snapshot' = AllUnset
    /\ objs' = objs + 1
    /\ autoCalc' \in BOOLEAN
    /\ fields' = AllUnset
    /\ pc' = "ctor"
    /\ bound' = FALSE
    /\ outcome' = "none"
    /\ computed' = {}
    /\ calls' = 0
    /\ report' = NoReport
    /\ shaftFormula' = "none"
    /\ UNCHANGED <<caller, call>>

Next ==
    \/ CtorAutoCalc
    \/ CtorNoCalc
    \/ CallCalculate
    \/ CallRepr
    \/ CalcStep
    \/ ReprFormat
    \/ NewObject
    \/ NewObjectOtherRevolutions

Spec == Init /\ [][Next]_vars

-----------------------------------------------------------------------------
(* Methods called directly on a Test_DudleyMethodSpline object, as the     *)
(* test_ methods do                                                        *)

MaxHardness == 360

MaxShock == 5

MaxBelowZero == 2

HardnessArgs == -MaxBelowZero..MaxHardness

HTypeArgs == {"Brinell", "Rockwell C", "RockwellC", "Vickers"}

ToothEndArgs == {"Straight", "Crowned", "Round"}

RevolutionArgs ==
    {<<hi, lo>> : hi \in {0, 1, 9, 10, 99, 100, 999, 1000, 9999, 10000,
                           99999, 100000, 100001},
                  lo \in {0, 9999, 10000, 99999}}

\* Test_DudleyMethodSpline.__init__: eighteen zeros, autoCalc=False, and the
\* defaults of DudleyMethodSpline.__init__ for the rest.
TestInputs ==
    [t |-> Num(0, 0), dRe |-> Num(0, 0), supplyShockType |-> 0,
     loadShockType |-> 0, n |-> Num(0, 0), nCyc |-> 0, nTotal |-> <<0, 0>>,
     hardness |-> 0, d |-> Num(0, 0), z |-> Num(0, 0), fE |-> Num(0, 0),
     tC |-> Num(0, 0), relativeMisalignment |-> Num(0, 0), h |-> Num(0, 0),
     phi |-> Num(0, 0), tW |-> Num(0, 0), f |-> Num(0, 0), dOi |-> Num(0, 0),
     dRi |-> Num(0, 0), dH |-> Num(0, 0), hType |-> "Brinell",
     reversible |-> FALSE, toothEnd |-> "Straight", flexible |-> TRUE,
     y |-> Num(15, -1)]

InitFn ==
    /\ inp = TestInputs
    /\ autoCalc = FALSE
    /\ fields = AllUnset
    /\ pc = "idle"
    /\ caller = "none"
    /\ bound = TRUE
    /\ outcome = "none"
    /\ computed = {}
    /\ calls = 0
    /\ objs = 1
    /\ snapshot = AllUnset
    /\ report = NoReport
    /\ call = NoCall
    /\ shaftFormula = "none"
    /\ previous = NoPrevious

\* Each behaviour makes one call on a fresh test object.
CanCall == pc = "idle" /\ call = NoCall

\* A method call that touches no attribute of the object.
Returns(fn, args, ret) ==
    /\ call' = [fn |-> fn, args |-> args, ret |-> ret]
    /\ UNCHANGED <<inp, autoCalc, fields, pc, caller, bound, outcome, computed,
                   calls, objs, snapshot, report, shaftFormula, previous>>

\* One of the three hardness-indexed lookups, by name.
HardnessLookup(fn, hardness, hType, toothEnd) ==
    CASE fn = "getAllowableShearStressByHardness" ->
            getAllowableShearStressByHardness(hardness, hType)
      [] fn = "getAllowableCompressiveStressForSplines" ->
            getAllowableCompressiveStressForSplines(hardness, hType, toothEnd)
      [] fn = "getAllowableBurstingStressByHardness" ->
            getAllowableBurstingStressByHardness(hardness, hType)

CallShear ==
    /\ CanCall
    /\ \E hd \in HardnessArgs, ht \in HTypeArgs :
        Returns("getAllowableShearStressByHardness", <<hd, ht>>,
                getAllowableShearStressByHardness(hd, ht))

CallCompressive ==
    /\ CanCall
    /\ \E hd \in HardnessArgs, ht \in HTypeArgs, te \in ToothEndArgs :
        Returns("getAllowableCompressiveStressForSplines", <<hd, ht, te>>,
                getAllowableCompressiveStressForSplines(hd, ht, te))

CallBursting ==
    /\ CanCall
    /\ \E hd \in HardnessArgs, ht \in HTypeArgs :
        Returns("getAllowableBurstingStressByHardness", <<hd, ht>>,
                getAllowableBurstingStressByHardness(hd, ht))

CallApplicationFactor ==
    /\ CanCall
    /\ \E s \in -MaxShock..MaxShock, l \in -MaxShock..MaxShock :
        Returns("getSplineApplicationFactor", <<s, l>>,
                getSplineApplicationFactor(s, l))

CallWearLife ==
    /\ CanCall
    /\ \E n \in RevolutionArgs :
        Returns("getSplineWearLifeFactor", <<n>>, getSplineWearLifeFactor(n))

\* Cycle counts around every breakpoint of getLifeFactor, negative counts
\* and counts far beyond the last breakpoint.
CycleArgs ==
    {-1000000, -1, 0, 1, 999, 1000, 1001, 9999, 10000, 10001, 99999, 100000,
     100001, 999999, 1000000, 1000001, 9999999, 10000000, 2000000000}

CallLifeFactor ==
    /\ CanCall
    /\ \E n \in CycleArgs, r \in BOOLEAN :
        Returns("getLifeFactor", <<n, r>>, getLifeFactor(n, r))

\* Relative misalignments and face widths [m] at, between and beyond the
\* breakpoints of getLoadDistributionFactorSpline.
MisalignmentArgs ==
    {Num(0, 0), Num(5, -4), Num(1, -3), Num(15, -4), Num(2, -3), Num(3, -3),
     Num(4, -3), Num(6, -3), Num(7999, -6), Num(8, -3), Num(1, -2), Num(1, 0)}

FaceWidthArgs ==
    {Num(6, -3), Num(127, -4), Num(18, -3), Num(254, -4), Num(3, -2),
     Num(508, -4), Num(6, -2), Num(1009, -4), Num(101, -3), Num(2, -1),
     Num(1, 0)}

CallLoadDistribution ==
    /\ CanCall
    /\ \E rm \in MisalignmentArgs, fw \in FaceWidthArgs :
        Returns("getLoadDistributionFactorSpline", <<rm, fw>>,
                getLoadDistributionFactorSpline(rm, fw))

NextFn ==
    \/ CallShear
    \/ CallCompressive
    \/ CallBursting
    \/ CallApplicationFactor
    \/ CallWearLife
    \/ CallLifeFactor
    \/ CallLoadDistribution

SpecFn == InitFn /\ [][NextFn]_vars

-----------------------------------------------------------------------------
(* The input form DMSEntryPanel: its selections and calculateDudley, which *)
(* builds a DudleyMethodSpline from them and prints it                     *)

_hardness ==
    <<"Brinell 160-200", "Brinell 230-260", "Brinell 302-351",
      "Rockwell C 33-38", "Rockwell C 42-46", "Rockwell C 48-53",
      "Rockwell C 58-63">>

\* The hardness type and range each entry of _hardness names.
hardnessRange ==
    << <<"Brinell", 160, 200>>, <<"Brinell", 230, 260>>, <<"Brinell", 302, 351>>,
       <<"Rockwell C", 33, 38>>, <<"Rockwell C", 42, 46>>,
       <<"Rockwell C", 48, 53>>, <<"Rockwell C", 58, 63>> >>

_powerSources ==
    <<"Uniform (turbine,motor)", "Light shock (hydraulic motor)",
      "Medium shock (internal combustion engine)">>

_loadTypes ==
    <<"Uniform (generator,fan)", "Light Shock (oscillating, pump,etc.)",
      "Intermittent Shock(actuating pumps, etc)",
      "Heavy Shock,(punches, shears, etc)">>

\* The labels '< 1E3' .. '< 1E7', character by character.
_torqCycs ==
    << <<"<", " ", "1", "E", "3">>, <<"<", " ", "1", "E", "4">>,
       <<"<", " ", "1", "E", "5">>, <<"<", " ", "1", "E", "6">>,
       <<"<", " ", "1", "E", "7">> >>

\* The labels '< 1E4' .. '< 1E10', character by character.
_revs ==
    << <<"<", " ", "1", "E", "4">>, <<"<", " ", "1", "E", "5">>,
       <<"<", " ", "1", "E", "6">>, <<"<", " ", "1", "E", "7">>,
       <<"<", " ", "1", "E", "8">>, <<"<", " ", "1", "E", "9">>,
       <<"<", " ", "1", "E", "1", "0">> >>

_rot == <<"Unidirectional", "Fully-reversed">>

_toothProf == <<"Straight", "Crowned">>

\* A faulty variant of hardnessReference: each entry holds the upper end of
\* the range its label names.
hardnessReferenceUpperEnds ==
    << <<"Brinell", 200>>, <<"Brinell", 260>>, <<"Brinell", 351>>,
       <<"Rockwell C", 38>>, <<"Rockwell C", 46>>, <<"Rockwell C", 53>>,
       <<"Rockwell C", 63>> >>

hardnessReference ==
    << <<"Brinell", 180>>, <<"Brinell", 240>>, <<"Brinell", 320>>,
       <<"Rockwell C", 35>>, <<"Rockwell C", 44>>, <<"Rockwell C", 50>>,
       <<"Rockwell C", 60>> >>

\* list.index(x): the 0-based position of x.
index(list, x) == (CHOOSE i \in 1..Len(list) : list[i] = x) - 1

\* label.split('E')[1]: the characters after the first 'E', up to the next
\* 'E' or the end.
RECURSIVE UpToE(_)
UpToE(chars) ==
    IF chars = <<>> \/ Head(chars) = "E" THEN <<>>
    ELSE <<Head(chars)>> \o UpToE(Tail(chars))

RECURSIVE AfterE(_)
AfterE(chars) ==
    IF chars = <<>> THEN <<>>
    ELSE IF Head(chars) = "E" THEN UpToE(Tail(chars))
    ELSE AfterE(Tail(chars))

Digit(c) ==
    CASE c = "0" -> 0 [] c = "1" -> 1 [] c = "2" -> 2 [] c = "3" -> 3
      [] c = "4" -> 4 [] c = "5" -> 5 [] c = "6" -> 6 [] c = "7" -> 7
      [] c = "8" -> 8 [] c = "9" -> 9

\* float(digits) for a string of decimal digits.
RECURSIVE float(_)
float(digits) ==
    IF digits = <<>> THEN 0
    ELSE 10 * float(SubSeq(digits, 1, Len(digits) - 1)) + Digit(digits[Len(digits)])

\* Line 1466: 10**float(label.split('E')[1]) - 1, the cycle count passed for
\* a 'No. of Torque Cycles' selection.
torqueCyclesOf(label) == Pow10(float(AfterE(label))) - 1

\* A faulty variant of revolutionsOf: the power of ten itself is passed.
revolutionsOfNoOffset(label) == E(float(AfterE(label)))

\* Line 1467: 10**float(label.split('E')[1]) - 1, the total revolutions passed
\* for a 'No. of Revolutions' selection, as a pair <<hi, lo>>.
revolutionsOf(label) ==
    LET k == float(AfterE(label))
    IN  IF k < 5 THEN <<0, Pow10(k) - 1>> ELSE <<Pow10(k - 5) - 1, 99999>>

\* <<'Power Source', 'Load Type'>> selections the model draws.
ShockChoices ==
    {<<_powerSources[3], _loadTypes[1]>>, <<_powerSources[1], _loadTypes[4]>>}

Range(list) == {list[i] : i \in 1..Len(list)}

\* factData: one choice per selection of the form.
FormSelections ==
    {[hardness |-> hd, power |-> sc[1], load |-> sc[2], torqCycs |-> tc,
      revs |-> rv, rot |-> ro, prof |-> tp, flexible |-> fx] :
        hd \in Range(_hardness), sc \in ShockChoices, tc \in Range(_torqCycs),
        rv \in Range(_revs), ro \in Range(_rot), tp \in Range(_toothProf),
        fx \in {"Yes", "No"}}

\* The arguments calculateDudley passes to DudleyMethodSpline (lines
\* 1449-1486) for the selections factData, with the geometry and torque
\* entries of Stored and no bore.
formInput(factData) ==
    LET hardness == hardnessReference[index(_hardness, factData.hardness) + 1]
    IN  Stored(hardness[1], hardness[2], factData.prof,
               <<index(_powerSources, factData.power),
                 index(_loadTypes, factData.load)>>,
               <<Num(0, 0), torqueCyclesOf(factData.torqCycs),
                 factData.rot = "Fully-reversed">>,
               <<revolutionsOf(factData.revs), factData.flexible = "Yes">>)

\* calculateDudley has read the form and is about to construct the
\* DudleyMethodSpline (autoCalc defaults to True).
InitForm ==
    /\ \E factData \in FormSelections :
          /\ call = [fn |-> "calculateDudley", args |-> <<factData>>, ret |-> None]
          /\ inp = formInput(factData)
    /\ autoCalc = TRUE
    /\ fields = AllUnset
    /\ pc = "ctor"
    /\ caller = "none"
    /\ bound = FALSE
    /\ outcome = "none"
    /\ computed = {}
    /\ calls = 0
    /\ objs = 1
    /\ snapshot = AllUnset
    /\ report = NoReport
    /\ shaftFormula = "none"
    /\ previous = NoPrevious

\* calculateDudley: the constructor runs calculate(), then str(dms) runs
\* __repr__ (line 1487).
NextForm ==
    \/ CtorAutoCalc
    \/ CalcStep
    \/ CallRepr
    \/ ReprFormat

SpecForm == InitForm /\ [][NextForm]_vars

-----------------------------------------------------------------------------
(* The published tables, as the docstrings print them *)

HardnessLookups ==
    {"getAllowableShearStressByHardness",
     "getAllowableCompressiveStressForSplines",
     "getAllowableBurstingStressByHardness"}

\* The hardness ranges <<low, high>> of the rows of a lookup's table.
Rows(fn, hType) ==
    IF hType = "Brinell" THEN {<<160, 200>>, <<230, 260>>, <<302, 351>>}
    ELSE IF fn = "getAllowableCompressiveStressForSplines"
    THEN {<<33, 38>>, <<48, 53>>, <<58, 63>>}
    ELSE {<<33, 38>>, <<42, 46>>, <<48, 53>>, <<58, 63>>}

\* The top of the highest published row.
Top(fn, hType) == CHOOSE x \in {r[2] : r \in Rows(fn, hType)} :
                      \A r \in Rows(fn, hType) : r[2] <= x

\* hardness is below the lowest published row or between two rows.
BelowOrInGap(fn, hardness, hType) ==
    /\ hardness < Top(fn, hType)
    /\ \A r \in Rows(fn, hType) : hardness < r[1] \/ r[2] < hardness

\* The low end of the first published row above hardness.
NextRowLow(fn, hardness, hType) ==
    CHOOSE x \in {r[1] : r \in Rows(fn, hType)} :
        /\ hardness < x
        /\ \A r \in Rows(fn, hType) : hardness < r[1] => x <= r[1]

Recognised(hType) == hType \in {"Brinell", "Rockwell C"}

\* The tooth end of a recorded call of a hardness lookup (only the
\* compressive lookup takes one; the default is 'Straight').
CallToothEnd == IF Len(call.args) = 3 THEN call.args[3] ELSE "Straight"

\* A hardness lookup was called with a tooth end it accepts.
LookupCalled ==
    /\ call.fn \in HardnessLookups
    /\ CallToothEnd \in {"Straight", "Crowned"}

-----------------------------------------------------------------------------
(* Properties *)

\* A run of calculate() has returned normally (to its caller, or to the
\* __repr__ that is about to format the result).
Completed == outcome = "returned" \/ pc = "fmt"

\* The last run ended with an exception.
Failed == outcome \notin {"none", "returned"}

\* A lookup calculate() makes has no bracket for the stored inputs.
BracketMiss ==
    \/ /\ Recognised(inp.hType)
       /\ \/ getAllowableShearStressByHardness(inp.hardness, inp.hType) = None
          \/ getAllowableBurstingStressByHardness(inp.hardness, inp.hType) = None
          \/ /\ inp.toothEnd \in {"Straight", "Crowned"}
             /\ getAllowableCompressiveStressForSplines(inp.hardness, inp.hType,
                                                        inp.toothEnd) = None
    \/ inp.flexible /\ getSplineWearLifeFactor(inp.nTotal) = None

\* The statements of calculate() that look a value up in a table.
LookupSteps ==
    {"appFactor", "splineLF", "allowShaftStress", "teethLoadkM",
     "allowCompStress", "lifeWear", "allowBurstStress"}

\* The lookup statement step finds no value for the stored inputs: it raises
\* or falls off its end.
LookupFails(step) ==
    /\ step \in LookupSteps
    /\ ~IsNum(Apply(step, [i \in 1..Len(Args(step)) |-> Load(Args(step)[i])]))

\* C1: whenever a statement of calculate() is about to execute, every result
\* attribute it reads has already been assigned in the same run.
C1_DependenciesComputedFirst ==
    pc \in ResultFields => Reads(pc) \subseteq computed

\* C1 witness: the last statement of a second run on a flexible spline, with
\* the three attributes it reads assigned in this run.
C1_Witness ==
    /\ pc = "burstSafetyFactor" /\ calls = 2 /\ inp.flexible
    /\ {"burstTotal", "allowBurstStress", "splineLF", "lifeWear"} \subseteq computed

C3_NoPartialResult ==
    (Failed /\ bound) => \A f \in computed : fields[f] = Unset

\* C4 (as claimed): a lookup that fails raises itself, so no statement after
\* a failing lookup executes: no failing lookup ever assigns and continues.
C4_RaisedAtFailingLookup ==
    \A f \in computed : ~LookupFails(f)

\* C5 (as claimed): with a shock class outside the table, no application
\* factor is returned.
C5_OutOfRangeShockRaises ==
    (inp.supplyShockType \notin 0..2 \/ inp.loadShockType \notin 0..3)
        => "appFactor" \notin computed

\* C6 (as claimed): below the lowest published row, inside a gap between
\* rows, and at Brinell 351, the hardness lookups return None.
C6_GapsFallThrough ==
    (/\ LookupCalled
     /\ Recognised(call.args[2])
     /\ \/ BelowOrInGap(call.fn, call.args[1], call.args[2])
        \/ (call.args[2] = "Brinell" /\ call.args[1] = 351))
        => call.ret = None

\* C6 (amended): a hardness lookup returns None exactly when the hardness is
\* at or above the top of the highest published row of its type; below the
\* lowest row or inside a gap it returns what it returns at the low end of
\* the next row above.
C6_FallThroughOnlyAtTop ==
    (LookupCalled /\ Recognised(call.args[2])) =>
        /\ call.ret = None <=> call.args[1] >= Top(call.fn, call.args[2])
        /\ call.ret # None => IsNum(call.ret)
        /\ BelowOrInGap(call.fn, call.args[1], call.args[2]) =>
              call.ret = HardnessLookup(call.fn,
                             NextRowLow(call.fn, call.args[1], call.args[2]),
                             call.args[2], CallToothEnd)

\* C6 witness: the shear lookup at Brinell 215, between the rows 160-200 and
\* 230-260, returned the 30000 psi of the row 230-260.
C6_Witness ==
    /\ call.fn = "getAllowableShearStressByHardness"
    /\ call.args = <<215, "Brinell">>
    /\ call.ret = psiToPa(Num(30000, 0))

\* C7: each hardness lookup, called with a hardness type other than
\* 'Brinell' and 'Rockwell C', raises UnrecognisedHardnessTypeException,
\* whatever the hardness.
C7_UnrecognisedHardnessTypeRaises ==
    (LookupCalled /\ ~Recognised(call.args[2])) =>
        call.ret = Raise("UnrecognisedHardnessTypeException")

\* C7 witness: the bursting lookup raised for type 'Vickers' at a hardness
\* above every bracket.
C7_Witness ==
    /\ call.fn = "getAllowableBurstingStressByHardness"
    /\ call.args = <<355, "Vickers">>
    /\ call.ret = Raise("UnrecognisedHardnessTypeException")

\* C8: the compressive lookup, called with a tooth end other than 'Straight'
\* and 'Crowned', raises UnrecognisedToothEndException, whatever the
\* hardness and the hardness type.
C8_UnrecognisedToothEndRaises ==
    (/\ call.fn = "getAllowableCompressiveStressForSplines"
     /\ call.args[3] \notin {"Straight", "Crowned"})
        => call.ret = Raise("UnrecognisedToothEndException")

\* C8 witness: tooth end 'Round' with an unrecognised hardness type and a
\* hardness above every bracket raised the tooth-end exception.
C8_Witness ==
    /\ call.fn = "getAllowableCompressiveStressForSplines"
    /\ call.args = <<355, "Vickers", "Round">>
    /\ call.ret = Raise("UnrecognisedToothEndException")

\* C9: every run of calculate() that returns, on the same object or on a
\* second object built from the same inputs, leaves every result attribute
\* with the value the first completed run gave it.
C9_SameInputsSameResult ==
    Completed => fields = snapshot

\* C9 witness: a second run on a second object has returned.
C9_Witness ==
    /\ objs = 2 /\ calls = 2 /\ pc = "idle" /\ outcome = "returned"
    /\ IsNum(fields["burstSafetyFactor"])

\* C10 (as claimed): on an object whose constructor computed the result,
\* __repr__ assigns no result attribute.
C10_ReprAssignsNothing ==
    (autoCalc /\ bound /\ caller = "repr") => computed = {}

\* C10 (amended): on an object whose constructor computed the result, no
\* later step changes the value of any result attribute.
C10_ResultNeverChanges ==
    [][(autoCalc /\ bound /\ objs' = objs) => fields' = fields]_vars

\* C10 witness: __repr__ has re-run calculate() on such an object and
\* printed the result.
C10_Witness ==
    /\ autoCalc /\ bound /\ calls = 2 /\ pc = "idle"
    /\ report # NoReport /\ fields = snapshot

\* C11: calculate() calls solidShaftStress exactly when the stored bore
\* diameter dH equals 0.0, and hollowShaftStress for every other dH, however
\* small; the shaft stress it stores is the value of the method it called.
C11_DispatchOnExactZero ==
    /\ shaftFormula # "none" =>
          (shaftFormula = "solidShaftStress" <=> inp.dH = Num(0, 0))
    /\ "shaftStress" \in computed =>
          /\ shaftFormula = "solidShaftStress" =>
                fields["shaftStress"] = solidShaftStress(inp.t, inp.dRe)
          /\ shaftFormula = "hollowShaftStress" =>
                fields["shaftStress"] = hollowShaftStress(inp.t, inp.dRe, inp.dH)

\* C11 witness: with dH = 1e-9 the run called hollowShaftStress and stored
\* its value.
C11_Witness ==
    /\ inp.dH = Num(1, -9)
    /\ shaftFormula = "hollowShaftStress"
    /\ "shaftStress" \in computed
    /\ IsNum(fields["shaftStress"])

\* The application factors test_SplineApplicationFactor and the docstring
\* table give, as <<supply class, load class, factor in tenths>>.
DudleyKa ==
    {<<0, 0, 10>>, <<0, 1, 12>>, <<0, 2, 15>>, <<0, 3, 18>>,
     <<1, 0, 12>>, <<1, 1, 13>>, <<1, 2, 18>>, <<1, 3, 21>>,
     <<2, 0, 20>>, <<2, 1, 22>>, <<2, 2, 24>>, <<2, 3, 28>>}

\* C12: for each of the 12 pairs of a supply shock class 0..2 and a load
\* shock class 0..3, getSplineApplicationFactor returns the Dudley table
\* entry of that pair.
C12_ApplicationFactorTable ==
    call.fn = "getSplineApplicationFactor" =>
        \A k \in DudleyKa :
            (call.args[1] = k[1] /\ call.args[2] = k[2]) => call.ret = Num(k[3], -1)

\* C12 witness: the call (1, 3) returned 2.1.
C12_Witness ==
    /\ call.fn = "getSplineApplicationFactor"
    /\ call.args = <<1, 3>>
    /\ call.ret = Num(21, -1)

\* C13: getLifeFactor is a step function of nCyc with strictly-less-than
\* comparisons: below 1000 it gives 1.8, from 1000 below 10000 it gives 1.0,
\* from 10000 below 100000 it gives 0.5 (0.4 fully reversed), from 100000
\* below 1000000 it gives 0.4 (0.3), from 1000000 on 0.3 (0.2); a count equal
\* to a breakpoint is in the higher bucket.
C13_LifeFactorSteps ==
    call.fn = "getLifeFactor" =>
        LET n == call.args[1]
            rev == call.args[2]
        IN  /\ n < 1000 => call.ret = Num(18, -1)
            /\ (1000 <= n /\ n < 10000) => call.ret = Num(10, -1)
            /\ (10000 <= n /\ n < 100000) =>
                  call.ret = IF rev THEN Num(4, -1) ELSE Num(5, -1)
            /\ (100000 <= n /\ n < 1000000) =>
                  call.ret = IF rev THEN Num(3, -1) ELSE Num(4, -1)
            /\ 1000000 <= n => call.ret = IF rev THEN Num(2, -1) ELSE Num(3, -1)

\* C13 witness: exactly at the breakpoint 10000, fully reversed, the lookup
\* returned the 0.4 of the bucket above.
C13_Witness ==
    /\ call.fn = "getLifeFactor"
    /\ call.args = <<10000, TRUE>>
    /\ call.ret = Num(4, -1)

\* C14 (as claimed): at nCyc = 99999 the life factor is 1.0 for fully
\* reversed rotation and 0.5 for unidirectional rotation.
C14_LifeFactorAt99999Claimed ==
    (call.fn = "getLifeFactor" /\ call.args[1] = 99999) =>
        call.ret = IF call.args[2] THEN Num(10, -1) ELSE Num(5, -1)

\* C14 (amended): at nCyc = 99999 the life factor is 0.4 for fully reversed
\* rotation and 0.5 for unidirectional rotation.
C14_LifeFactorAt99999 ==
    (call.fn = "getLifeFactor" /\ call.args[1] = 99999) =>
        call.ret = IF call.args[2] THEN Num(4, -1) ELSE Num(5, -1)

\* C14 witness: getLifeFactor(99999, reversible=True) returned 0.4.
C14_Witness ==
    /\ call.fn = "getLifeFactor"
    /\ call.args = <<99999, TRUE>>
    /\ call.ret = Num(4, -1)

\* The misalignment intervals of the Km table, <<index, from, below>>.
MisalignmentIntervals ==
    {<<0, Num(-1, 0), Num(1, -3)>>, <<1, Num(1, -3), Num(2, -3)>>,
     <<2, Num(2, -3), Num(4, -3)>>, <<3, Num(4, -3), Num(8, -3)>>}

\* The face-width intervals of the Km table [m], <<index, from, below>>.
FaceWidthIntervals ==
    {<<0, Num(-1, 0), Num(127, -4)>>, <<1, Num(127, -4), Num(254, -4)>>,
     <<2, Num(254, -4), Num(508, -4)>>, <<3, Num(508, -4), Num(101, -3)>>}

\* x lies in the interval iv: from <= x < below (the interval of index 0
\* has no lower end).
Within(x, iv) == (iv[1] = 0 \/ ~Lt(x, iv[2])) /\ Lt(x, iv[3])

\* The Km table test_LoadDistFactorSpline expects, in tenths, by
\* <<misalignment index, face-width index>>.
DudleyKm ==
    << <<10, 10, 10, 15>>, <<10, 10, 15, 20>>, <<10, 15, 20, 25>>,
       <<15, 20, 25, 30>> >>

\* C15: when the relative misalignment lies in the i-th misalignment
\* interval and the face width in the j-th width interval,
\* getLoadDistributionFactorSpline returns the table value at (i, j).
C15_KmTable ==
    call.fn = "getLoadDistributionFactorSpline" =>
        \A mi \in MisalignmentIntervals, wi \in FaceWidthIntervals :
            (Within(call.args[1], mi) /\ Within(call.args[2], wi)) =>
                call.ret = Num(DudleyKm[mi[1] + 1][wi[1] + 1], -1)

\* C15 witness: misalignment exactly 0.002 (third interval) with face width
\* exactly 25.4 mm (third interval) returned 2.0.
C15_Witness ==
    /\ call.fn = "getLoadDistributionFactorSpline"
    /\ call.args = <<Num(2, -3), Num(254, -4)>>
    /\ call.ret = Num(20, -1)

\* C16: for every misalignment >= 0.008 and face width >= 0.101 m the Km
\* lookup returns a number, the 3.0 it returns for misalignment 0.008 and
\* face width 0.101 (table index (3, 3)); no index past the table is used,
\* so no IndexError is raised.
C16_KmClampsAtTop ==
    (/\ call.fn = "getLoadDistributionFactorSpline"
     /\ ~Lt(call.args[1], Num(8, -3))
     /\ ~Lt(call.args[2], Num(101, -3))) =>
        /\ call.ret = Num(30, -1)
        /\ call.ret = getLoadDistributionFactorSpline(Num(8, -3), Num(101, -3))

\* C16 witness: misalignment 1.0 with face width 1.0 returned 3.0.
C16_Witness ==
    /\ call.fn = "getLoadDistributionFactorSpline"
    /\ call.args = <<Num(1, 0), Num(1, 0)>>
    /\ call.ret = Num(30, -1)

\* The rows of the docstring table of a hardness lookup for one hardness
\* type and tooth profile, <<low, high, allowable stress in psi>>.
PublishedStress(fn, hType, toothEnd) ==
    CASE fn = "getAllowableShearStressByHardness" ->
            IF hType = "Brinell"
            THEN {<<160, 200, 20000>>, <<230, 260, 30000>>, <<302, 351, 40000>>}
            ELSE {<<33, 38, 40000>>, <<42, 46, 45000>>, <<48, 53, 40000>>,
                  <<58, 63, 50000>>}
      [] fn = "getAllowableCompressiveStressForSplines" ->
            IF hType = "Brinell" THEN
                IF toothEnd = "Straight"
                THEN {<<160, 200, 1500>>, <<230, 260, 2000>>, <<302, 351, 3000>>}
                ELSE {<<160, 200, 6000>>, <<230, 260, 8000>>, <<302, 351, 12000>>}
            ELSE
                IF toothEnd = "Straight"
                THEN {<<33, 38, 3000>>, <<48, 53, 4000>>, <<58, 63, 5000>>}
                ELSE {<<33, 38, 12000>>, <<48, 53, 16000>>, <<58, 63, 20000>>}
      [] fn = "getAllowableBurstingStressByHardness" ->
            IF hType = "Brinell"
            THEN {<<160, 200, 22000>>, <<230, 260, 32000>>, <<302, 351, 45000>>}
            ELSE {<<33, 38, 45000>>, <<42, 46, 45000>>, <<48, 53, 50000>>,
                  <<58, 63, 55000>>}

\* The recorded call returned the stress of every published row its hardness
\* is strictly inside, converted to Pa.
ReturnsRowStress ==
    \A r \in PublishedStress(call.fn, call.args[2], CallToothEnd) :
        (r[1] < call.args[1] /\ call.args[1] < r[2]) =>
            call.ret = psiToPa(Num(r[3], 0))

\* C17: for every hardness strictly inside a published row of the
\* allowable-shear table, getAllowableShearStressByHardness returns that
\* row's stress in psi converted to Pa.
C17_ShearRowStress ==
    (/\ call.fn = "getAllowableShearStressByHardness"
     /\ Recognised(call.args[2])) => ReturnsRowStress

\* C17 witness: Brinell 180 returned 20000 psi in Pa.
C17_Witness ==
    /\ call.fn = "getAllowableShearStressByHardness"
    /\ call.args = <<180, "Brinell">>
    /\ call.ret = psiToPa(Num(20000, 0))

\* C18: for every hardness strictly inside a published row of the
\* allowable-compressive table and a straight or crowned tooth end,
\* getAllowableCompressiveStressForSplines returns that row's psi value for
\* that profile converted to Pa.
C18_CompressiveRowStress ==
    (/\ call.fn = "getAllowableCompressiveStressForSplines"
     /\ Recognised(call.args[2])
     /\ call.args[3] \in {"Straight", "Crowned"}) => ReturnsRowStress

\* C18 witness: Rockwell C 50 with crowned teeth returned 16000 psi in Pa.
C18_Witness ==
    /\ call.fn = "getAllowableCompressiveStressForSplines"
    /\ call.args = <<50, "Rockwell C", "Crowned">>
    /\ call.ret = psiToPa(Num(16000, 0))

\* C19: for every hardness strictly inside a published row of the
\* allowable-bursting table, getAllowableBurstingStressByHardness returns
\* that row's psi value converted to Pa.
C19_BurstingRowStress ==
    (/\ call.fn = "getAllowableBurstingStressByHardness"
     /\ Recognised(call.args[2])) => ReturnsRowStress

\* C19 witness: Rockwell C 35 returned 45000 psi in Pa.
C19_Witness ==
    /\ call.fn = "getAllowableBurstingStressByHardness"
    /\ call.args = <<35, "Rockwell C">>
    /\ call.ret = psiToPa(Num(45000, 0))

\* The steps of the wear-life table, <<from, below, factor in tenths>>.
WearLifeSteps ==
    {<<<<0, 0>>, E(4), 40>>, <<E(4), E(5), 28>>, <<E(5), E(6), 20>>,
     <<E(6), E(7), 14>>, <<E(7), E(8), 10>>, <<E(8), E(9), 7>>,
     <<E(9), E(10), 5>>}

\* C20: getSplineWearLifeFactor is a step function of the total revolutions
\* with strictly-less-than comparisons: below 1e4 it gives 4.0, from 1e4
\* below 1e5 2.8, then 2.0, 1.4, 1.0, 0.7, and from 1e9 below 1e10 0.5.
C20_WearLifeSteps ==
    call.fn = "getSplineWearLifeFactor" =>
        \A st \in WearLifeSteps :
            (~BigLt(call.args[1], st[1]) /\ BigLt(call.args[1], st[2])) =>
                call.ret = Num(st[3], -1)

\* C20 witness: exactly 1e9 revolutions returned the 0.5 of the step above.
C20_Witness ==
    /\ call.fn = "getSplineWearLifeFactor"
    /\ call.args = <<E(9)>>
    /\ call.ret = Num(5, -1)

\* C21: the factored compressive stress branches on the flexible flag: for a
\* flexible spline calculate() looks Lw up from the total revolutions and
\* stores compressiveStress * Ka / Lw; for a rigid spline it stores
\* compressiveStress * Ka / (9 * Lf) with the cycle-based life factor Lf.
\* With sC = 2, Ka = 3 and a factor of 5 the two forms give 1.2 and 6/45.
C21_FactoredCompressiveBranches ==
    /\ "factoredCompStress" \in computed =>
          IF inp.flexible
          THEN /\ "lifeWear" \in computed
               /\ fields["lifeWear"] = getSplineWearLifeFactor(inp.nTotal)
               /\ fields["factoredCompStress"] =
                      Div(Mul(fields["compStress"], fields["appFactor"]),
                          fields["lifeWear"])
          ELSE /\ "lifeWear" \notin computed
               /\ fields["splineLF"] = getLifeFactor(inp.nCyc, inp.reversible)
               /\ fields["factoredCompStress"] =
                      Div(Mul(fields["compStress"], fields["appFactor"]),
                          Mul(Num(9, 0), fields["splineLF"]))
    /\ getAllowableCompressiveStress(Num(2, 0), Num(3, 0), Num(5, 0), TRUE)
          = Num(12, -1)
    /\ getAllowableCompressiveStress(Num(2, 0), Num(3, 0), Num(5, 0), FALSE)
          = Div(Num(6, 0), Num(45, 0))

\* C21 witness: a rigid spline whose run has stored the factored compressive
\* stress.
C21_Witness ==
    /\ ~inp.flexible
    /\ "factoredCompStress" \in computed
    /\ IsNum(fields["factoredCompStress"])
    /\ fields["lifeWear"] = Unset

\* C22: the total bursting stress calculate() stores is
\* Ka * Km * (S1 + S3) + S2 of the application factor, the load-distribution
\* factor and the radial, centrifugal and tensile stresses of the same run:
\* the centrifugal stress is added unscaled.  Ka = 2, Km = 3, S1 = 5, S2 = 7,
\* S3 = 11 gives 103.
C22_TotalBurstingStress ==
    /\ "burstTotal" \in computed =>
          fields["burstTotal"] =
              Add(Mul(Mul(fields["appFactor"], fields["teethLoadkM"]),
                      Add(fields["burstRad"], fields["burstTens"])),
                  fields["burstCentrifugal"])
    /\ getTotalBurstingStress(Num(2, 0), Num(3, 0), Num(5, 0), Num(7, 0), Num(11, 0))
          = Num(103, 0)

\* C22 witness: a run has stored a total bursting stress above the scaled
\* sum of the radial and tensile stresses.
C22_Witness ==
    /\ "burstTotal" \in computed
    /\ IsNum(fields["burstTotal"])
    /\ Lt(Num(0, 0), fields["burstCentrifugal"])
    /\ Lt(Mul(Mul(fields["appFactor"], fields["teethLoadkM"]),
              Add(fields["burstRad"], fields["burstTens"])),
          fields["burstTotal"])

\* C23: every safety factor calculate() stores is the allowable stress
\* divided by the factored actual stress: shaft = allowable shear /
\* (shaft stress * Ka / Lf), teeth = the same allowable shear / (teeth shear
\* stress * Ka / Lf), compressive = allowable compressive / factored
\* compressive, bursting = allowable bursting / (total bursting / Lf).  A
\* maximum of 2 with an allowable of 3 gives 1.5; a total of 2, an allowable
\* of 3 and Lf = 5 give 7.5.
C23_SafetyFactors ==
    /\ "shaftSafetyFactor" \in computed =>
          fields["shaftSafetyFactor"] =
              Div(fields["allowShaftStress"],
                  Div(Mul(fields["shaftStress"], fields["appFactor"]),
                      fields["splineLF"]))
    /\ "teethSafetyFactor" \in computed =>
          fields["teethSafetyFactor"] =
              Div(fields["allowShaftStress"],
                  Div(Mul(fields["teethShearStress"], fields["appFactor"]),
                      fields["splineLF"]))
    /\ "compSafetyFactor" \in computed =>
          fields["compSafetyFactor"] =
              Div(fields["allowCompStress"], fields["factoredCompStress"])
    /\ "burstSafetyFactor" \in computed =>
          fields["burstSafetyFactor"] =
              Div(fields["allowBurstStress"],
                  Div(fields["burstTotal"], fields["splineLF"]))
    /\ getShaftSafetyFactor(Num(2, 0), Num(3, 0)) = Num(15, -1)
    /\ getBurstingSafetyFactor(Num(2, 0), Num(3, 0), Num(5, 0)) = Num(75, -1)

\* C23 witness: a run has returned with all four safety factors stored.
C23_Witness ==
    /\ outcome = "returned"
    /\ {"shaftSafetyFactor", "teethSafetyFactor", "compSafetyFactor",
         "burstSafetyFactor"} \subseteq computed
    /\ \A f \in {"shaftSafetyFactor", "teethSafetyFactor", "compSafetyFactor",
                  "burstSafetyFactor"} : IsNum(fields[f])

\* The published row with the lowest hardness range.
LowestRow(fn, hType, toothEnd) ==
    CHOOSE r \in PublishedStress(fn, hType, toothEnd) :
        \A q \in PublishedStress(fn, hType, toothEnd) : r[1] <= q[1]

\* C24: for a recognised hardness type each of the three hardness lookups
\* returns a stress exactly when (Brinell and hardness < 351) or (Rockwell C
\* and hardness < 63), and None otherwise, so on any input the three return
\* a stress together or fall through together; a hardness below the lowest
\* published row, zero and negative values included, gets the lowest row's
\* stress.
C24_LookupsShareDomain ==
    (LookupCalled /\ Recognised(call.args[2])) =>
        LET hd == call.args[1]
            ht == call.args[2]
        IN  /\ IsNum(call.ret) <=>
                  \/ ht = "Brinell" /\ hd < 351
                  \/ ht = "Rockwell C" /\ hd < 63
            /\ ~IsNum(call.ret) => call.ret = None
            /\ \A fn \in HardnessLookups :
                  IsNum(HardnessLookup(fn, hd, ht, CallToothEnd)) <=> IsNum(call.ret)
            /\ hd < LowestRow(call.fn, ht, CallToothEnd)[1] =>
                  call.ret = psiToPa(Num(LowestRow(call.fn, ht, CallToothEnd)[3], 0))

\* C24 witness: the compressive lookup at Rockwell C -1 with crowned teeth
\* returned the 12000 psi of the row 33-38.
C24_Witness ==
    /\ call.fn = "getAllowableCompressiveStressForSplines"
    /\ call.args = <<-1, "Rockwell C", "Crowned">>
    /\ call.ret = psiToPa(Num(12000, 0))

\* The table row (0..3) the Km lookup uses for a misalignment: the row
\* labelled 0.001 strictly below 0.001, the row labelled 0.008 from 0.004 on.
MisalignmentRow(x) ==
    IF Lt(x, Num(1, -3)) THEN 0
    ELSE IF Lt(x, Num(2, -3)) THEN 1
    ELSE IF Lt(x, Num(4, -3)) THEN 2
    ELSE 3

\* The table column (0..3) the Km lookup uses for a face width [m]: the
\* column labelled 12.7 mm strictly below 12.7 mm, the column labelled
\* 101 mm from 50.8 mm on.
FaceWidthColumn(x) ==
    IF Lt(x, Num(127, -4)) THEN 0
    ELSE IF Lt(x, Num(254, -4)) THEN 1
    ELSE IF Lt(x, Num(508, -4)) THEN 2
    ELSE 3

\* C25: in the Km lookup the top breakpoint of each axis has no effect: the
\* misalignment index is 3 for every misalignment >= 0.004 and the
\* face-width index is 3 for every width >= 50.8 mm, and the first row and
\* column are used only strictly below the first breakpoint.
C25_KmTopBreakpointIdle ==
    call.fn = "getLoadDistributionFactorSpline" =>
        /\ call.ret = Num(DudleyKm[MisalignmentRow(call.args[1]) + 1]
                                  [FaceWidthColumn(call.args[2]) + 1], -1)
        /\ (~Lt(call.args[1], Num(4, -3)) /\ ~Lt(call.args[2], Num(508, -4)))
              => call.ret = Num(30, -1)

\* C25 witness: misalignment 0.006 and face width 60 mm, both below their
\* top breakpoint, returned the 3.0 of the last row and column.
C25_Witness ==
    /\ call.fn = "getLoadDistributionFactorSpline"
    /\ call.args = <<Num(6, -3), Num(6, -2)>>
    /\ call.ret = Num(30, -1)

\* A shock class is outside the application-factor table.
ShockOutOfRange ==
    inp.supplyShockType \notin 0..2 \/ inp.loadShockType \notin 0..3

\* C26 (as claimed): when calculate() raises the unrecognised-tooth-end
\* error, the shaft and teeth safety factors are already stored, the
\* hardness type is recognised and the hardness is in a defined bracket; with
\* an unrecognised hardness type and tooth end the hardness-type error is
\* reported, never the tooth-end error; and with a shock class out of range
\* as well, the index error is reported before either.
C26_ErrorPrecedence ==
    /\ outcome = "UnrecognisedToothEndException" =>
          /\ {"shaftSafetyFactor", "teethSafetyFactor"} \subseteq computed
          /\ IsNum(fields["shaftSafetyFactor"])
          /\ IsNum(fields["teethSafetyFactor"])
          /\ Recognised(inp.hType)
          /\ IsNum(getAllowableShearStressByHardness(inp.hardness, inp.hType))
    /\ (Failed /\ ~Recognised(inp.hType)
           /\ inp.toothEnd \notin {"Straight", "Crowned"}) =>
          /\ outcome # "UnrecognisedToothEndException"
          /\ ~ShockOutOfRange => outcome = "UnrecognisedHardnessTypeException"
          /\ ShockOutOfRange => outcome = "IndexError"

\* Every lookup of calculate() other than the wear-life lookup has a value
\* for the stored inputs.
OtherwiseValid ==
    /\ IsNum(getSplineApplicationFactor(inp.supplyShockType, inp.loadShockType))
    /\ \A fn \in HardnessLookups :
          IsNum(HardnessLookup(fn, inp.hardness, inp.hType, inp.toothEnd))

\* C27: for a rigid spline calculate() never consults the total
\* revolutions: it makes no wear-life lookup, a completed run leaves the
\* result a completed run left on an object that differed in nTotal only,
\* and nTotal >= 1e10 does not make it fail, whereas a flexible spline with
\* that nTotal never completes.
C27_RigidIgnoresRevolutions ==
    /\ ~inp.flexible =>
          /\ "lifeWear" \notin computed
          /\ fields["lifeWear"] = Unset
          /\ OtherwiseValid => ~Failed
          /\ (Completed /\ previous.fields # AllUnset) => fields = previous.fields
    /\ (inp.flexible /\ ~BigLt(inp.nTotal, E(10))) =>
          /\ ~Completed
          /\ (OtherwiseValid /\ outcome # "none") => outcome = "TypeError"

\* C27 witness: a rigid spline with 9999 total revolutions has returned the
\* result that the object with 1e10 total revolutions had returned.
C27_Witness ==
    /\ ~inp.flexible
    /\ inp.nTotal = <<0, 9999>>
    /\ previous.nTotal = E(10)
    /\ previous.fields # AllUnset
    /\ outcome = "returned"
    /\ fields = previous.fields

\* The values of the life-factor table.
LifeFactors ==
    {Num(18, -1), Num(10, -1), Num(5, -1), Num(4, -1), Num(3, -1), Num(2, -1)}

\* C28: getLifeFactor is total and strictly positive: for every cycle count
\* (zero, negative and very large counts included) and both rotation modes
\* it returns one of 1.8, 1.0, 0.5, 0.4, 0.3, 0.2, so the divisions by Lf in
\* maximumShaftStress, the rigid getAllowableCompressiveStress and
\* getBurstingSafetyFactor do not fail.
C28_LifeFactorTotalPositive ==
    call.fn = "getLifeFactor" =>
        /\ call.ret \in LifeFactors
        /\ Lt(Num(0, 0), call.ret)
        /\ IsNum(maximumShaftStress(Num(2, 0), Num(3, 0), call.ret))
        /\ IsNum(getAllowableCompressiveStress(Num(2, 0), Num(3, 0), call.ret, FALSE))
        /\ IsNum(getBurstingSafetyFactor(Num(2, 0), Num(3, 0), call.ret))

\* C28 witness: two thousand million cycles, fully reversed, returned 0.2.
C28_Witness ==
    /\ call.fn = "getLifeFactor"
    /\ call.args = <<2000000000, TRUE>>
    /\ call.ret = Num(2, -1)

\* The selections calculateDudley read from the form.
factData == call.args[1]

\* The rows of the life-factor table in tenths, <<unidirectional, fully
\* reversed>>, and of the wear-life table, in the order of the form's
\* choices.
LifeRows == << <<18, 18>>, <<10, 10>>, <<5, 4>>, <<4, 3>>, <<3, 2>> >>

WearRows == <<40, 28, 20, 14, 10, 7, 5>>

\* C29: a form choice '< 1Ek' is passed as 10^k - 1, so the k-th torque-cycle
\* choice yields the k-th row of the life-factor table and the k-th
\* revolutions choice the k-th row of the wear-life table; no choice reaches
\* total revolutions of 1e10 or more, where the wear-life lookup has no value.
C29_FormCyclesLandInNamedBucket ==
    LET k == index(_torqCycs, factData.torqCycs)
        j == index(_revs, factData.revs)
    IN  /\ inp.nCyc = Pow10(k + 3) - 1
        /\ BigLt(inp.nTotal, E(j + 4))
        /\ j > 0 => ~BigLt(inp.nTotal, E(j + 3))
        /\ BigLt(inp.nTotal, E(10))
        /\ "splineLF" \in computed =>
              fields["splineLF"] =
                  Num(LifeRows[k + 1][IF inp.reversible THEN 2 ELSE 1], -1)
        /\ "lifeWear" \in computed => fields["lifeWear"] = Num(WearRows[j + 1], -1)
        /\ outcome # "TypeError"

\* C29 witness: with '< 1E10' revolutions on a flexible spline the run
\* returned with the wear-life factor 0.5 of the last row.
C29_Witness ==
    /\ call.fn = "calculateDudley"
    /\ factData.revs = _revs[7]
    /\ factData.torqCycs = _torqCycs[5]
    /\ inp.nTotal = <<99999, 99999>>
    /\ outcome = "returned"
    /\ fields["lifeWear"] = Num(5, -1)
    /\ fields["splineLF"] \in {Num(3, -1), Num(2, -1)}

\* C30: every hardness choice of the form is passed as a recognised
\* hardness type and a value strictly inside the range its label names, so a
\* calculation started from the form never raises the
\* unrecognised-hardness-type error and never misses a bracket in the shear,
\* compressive or bursting lookup.
C30_FormHardnessInsideNamedRange ==
    LET named == hardnessRange[index(_hardness, factData.hardness) + 1]
    IN  /\ inp.hType = named[1]
        /\ named[2] < inp.hardness /\ inp.hardness < named[3]
        /\ Recognised(inp.hType)
        /\ outcome \notin {"UnrecognisedHardnessTypeException", "TypeError"}
        /\ \A f \in {"allowShaftStress", "allowCompStress", "allowBurstStress"} :
              f \in computed => IsNum(fields[f])

\* C30 witness: the choice 'Rockwell C 42-46' was passed as Rockwell C 44 and
\* the run returned with the three allowable stresses stored.
C30_Witness ==
    /\ call.fn = "calculateDudley"
    /\ factData.hardness = "Rockwell C 42-46"
    /\ inp.hType = "Rockwell C" /\ inp.hardness = 44
    /\ outcome = "returned"
    /\ \A f \in {"allowShaftStress", "allowCompStress", "allowBurstStress"} :
          IsNum(fields[f])

====
